---- MODULE Spec2Model ----
(***************************************************************************)
(* Model of the LaTeX compilation pipeline (src/services/latexCompiler.ts) *)
(* and of its caller, the Preview component (src/components/Preview.tsx).  *)
(*                                                                         *)
(* A source is a sequence of tokens; every token is a piece of LaTeX text  *)
(* whose braces and \begin / \end markers are counted as validateLatex     *)
(* counts them on the text.  An artifact reference (a blob: URL returned   *)
(* by URL.createObjectURL) is the index of its entry in blobs.             *)
(***************************************************************************)
EXTENDS Integers, Sequences, FiniteSets, TLC

\* ---------------------------------------------------------------- bounds
MaxCalls == 2         \* compile calls started in one behaviour
MaxMounts == 2        \* times the Preview component is mounted
MaxProjects == 2      \* distinct project ids
MaxSrcLen == 5        \* tokens of a source given to validateLatex on its own
MaxTextLen == 5       \* pieces of a text given to cleanLatexText on its own
MaxDocLen == 5        \* tokens of a source given to fallbackCompilation on its own
MaxWords == 4         \* words of a text given to wrapText on its own
MaxClock == 3         \* ticks the clock advances in one behaviour
MaxRenders == 2       \* local compilations run one after the other
MaxEdits == 3         \* edits made in the editor in one behaviour
MaxBodyLen == 2       \* pieces of the body of an environment given to cleanLatexText
MaxAbstractLines == 48 \* wrapped lines of the abstract of a content given to the drawing
MaxSections == 2      \* sections of a content given to the drawing
MaxParagraphs == 2    \* paragraphs of a section of such a content
MaxRefs == 2          \* references of such a content
MaxRefLines == 5      \* wrapped lines of a reference of such a content
MaxBibLen == 3        \* tokens between the delimiters of a bibliography environment

\* ---------------------------------------------------------------- tokens
DocumentClass == "\\documentclass"
BeginDocument == "\\begin{document}"
EndDocument == "\\end{document}"
OpenBrace == "{"
BeginItemize == "\\begin{itemize}"
CloseBrace == "}"
EndEnumerate == "\\end{enumerate}"
ArticleArg == "{article}"
TitleA == "\\title{A}"
SectionA == "\\section{A}"
SubsectionB == "\\subsection{B}"
SubsubsectionStarA == "\\subsubsection*{A}"
LabelA == "\\label{a}"
BlankLine == "\n\n"
BibitemA == "\\bibitem{a}"
EmphY == "\\emph{y}"
TimestampComment == "% Compiled at <now>\n"

MinimalDocument == <<DocumentClass, BeginDocument, EndDocument>>
\* \documentclass{article}\begin{document}\end{document}
MinimalSource == <<DocumentClass, ArticleArg, BeginDocument, EndDocument>>

\* the subsequence of s made of the positions in keep, in order
RECURSIVE Pick(_, _)
Pick(s, keep) ==
  IF s = <<>> THEN <<>>
  ELSE LET rest == Pick(Tail(s), {i - 1 : i \in keep \ {1}})
       IN IF 1 \in keep THEN <<Head(s)>> \o rest ELSE rest

\* the minimal document, every way of dropping some of its markers, the
\* minimal document with one unmatched brace or one unmatched environment,
\* and a source of whitespace only
Sources ==
  {Pick(MinimalDocument, keep) : keep \in SUBSET (1..Len(MinimalDocument))}
    \cup {<<DocumentClass, BeginDocument, extra, EndDocument>> :
            extra \in {OpenBrace, BeginItemize}}
    \cup {<<" ">>}

\* the text of a token, as the pieces the counts are taken on
Lex(tok) ==
  CASE tok = DocumentClass -> <<"\\", "documentclass">>
    [] tok = BeginDocument -> <<"\\", "begin", "{", "document", "}">>
    [] tok = EndDocument -> <<"\\", "end", "{", "document", "}">>
    [] tok = BeginItemize -> <<"\\", "begin", "{", "itemize", "}">>
    [] tok = EndEnumerate -> <<"\\", "end", "{", "enumerate", "}">>
    [] tok = ArticleArg -> <<"{", "article", "}">>
    [] tok = TitleA -> <<"\\", "title", "{", "A", "}">>
    [] tok = SectionA -> <<"\\", "section", "{", "A", "}">>
    [] tok = SubsectionB -> <<"\\", "subsection", "{", "B", "}">>
    [] tok = SubsubsectionStarA -> <<"\\", "subsubsection", "*", "{", "A", "}">>
    [] tok = LabelA -> <<"\\", "label", "{", "a", "}">>
    [] tok = BlankLine -> <<"\n", "\n">>
    [] tok = BibitemA -> <<"\\", "bibitem", "{", "a", "}">>
    [] tok = EmphY -> <<"\\", "emph", "{", "y", "}">>
    [] OTHER -> <<tok>>

RECURSIVE Text(_)
Text(latexCode) ==
  IF latexCode = <<>> THEN <<>> ELSE Lex(Head(latexCode)) \o Text(Tail(latexCode))

Null == 0
Err(kind) == [kind |-> kind, command |-> "", a |-> 0, b |-> 0]
NoError == Err("none")
NoProject == [id |-> Null, latex_code |-> <<>>]
ProjectIds == 1..MaxProjects

\* ---------------------------------------------------------------- validateLatex
requiredCommands == <<DocumentClass, BeginDocument, EndDocument>>

includes(latexCode, command) == \E i \in DOMAIN latexCode : latexCode[i] = command

HasOpenBrace(tok) ==
  tok \in {BeginDocument, EndDocument, OpenBrace, BeginItemize, EndEnumerate,
           ArticleArg}
HasCloseBrace(tok) ==
  tok \in {BeginDocument, EndDocument, CloseBrace, BeginItemize, EndEnumerate,
           ArticleArg}
IsBeginMatch(tok) == tok \in {BeginDocument, BeginItemize}
IsEndMatch(tok) == tok \in {EndDocument, EndEnumerate}
EnvName(tok) ==
  CASE tok \in {BeginDocument, EndDocument} -> "document"
    [] tok = BeginItemize -> "itemize"
    [] tok = EndEnumerate -> "enumerate"
    [] OTHER -> ""

\* variant: only a brace that stands alone is counted
openBraces_BareOnly(latexCode) ==
  Cardinality({i \in DOMAIN latexCode : latexCode[i] = OpenBrace})

openBraces(latexCode) == Cardinality({i \in DOMAIN latexCode : HasOpenBrace(latexCode[i])})
closeBraces(latexCode) == Cardinality({i \in DOMAIN latexCode : HasCloseBrace(latexCode[i])})
beginMatches(latexCode) == Cardinality({i \in DOMAIN latexCode : IsBeginMatch(latexCode[i])})
\* variant: an \end counts only when some \begin has the same name
endMatches_PairedByName(latexCode) ==
  Cardinality({i \in DOMAIN latexCode :
                 /\ IsEndMatch(latexCode[i])
                 /\ \E j \in DOMAIN latexCode :
                      /\ IsBeginMatch(latexCode[j])
                      /\ EnvName(latexCode[j]) = EnvName(latexCode[i])})

endMatches(latexCode) == Cardinality({i \in DOMAIN latexCode : IsEndMatch(latexCode[i])})

MissingCommands(latexCode) ==
  {k \in DOMAIN requiredCommands : ~includes(latexCode, requiredCommands[k])}

FirstMissing(latexCode) ==
  CHOOSE k \in MissingCommands(latexCode) : \A j \in MissingCommands(latexCode) : k <= j

\* variant: the brace check comes before the required commands
validateLatex_BracesFirst(latexCode) ==
  IF openBraces(latexCode) # closeBraces(latexCode)
  THEN [isValid |-> FALSE,
        error |-> [Err("UnbalancedBraces") EXCEPT
                     !.a = openBraces(latexCode), !.b = closeBraces(latexCode)]]
  ELSE IF MissingCommands(latexCode) # {}
  THEN [isValid |-> FALSE,
        error |-> [Err("MissingMarker") EXCEPT
                     !.command = requiredCommands[FirstMissing(latexCode)]]]
  ELSE IF beginMatches(latexCode) # endMatches(latexCode)
  THEN [isValid |-> FALSE,
        error |-> [Err("UnbalancedEnvironments") EXCEPT
                     !.a = beginMatches(latexCode), !.b = endMatches(latexCode)]]
  ELSE [isValid |-> TRUE, error |-> NoError]

validateLatex(latexCode) ==
  IF MissingCommands(latexCode) # {}
  THEN [isValid |-> FALSE,
        error |-> [Err("MissingMarker") EXCEPT
                     !.command = requiredCommands[FirstMissing(latexCode)]]]
  ELSE IF openBraces(latexCode) # closeBraces(latexCode)
  THEN [isValid |-> FALSE,
        error |-> [Err("UnbalancedBraces") EXCEPT
                     !.a = openBraces(latexCode), !.b = closeBraces(latexCode)]]
  ELSE IF beginMatches(latexCode) # endMatches(latexCode)
  THEN [isValid |-> FALSE,
        error |-> [Err("UnbalancedEnvironments") EXCEPT
                     !.a = beginMatches(latexCode), !.b = endMatches(latexCode)]]
  ELSE [isValid |-> TRUE, error |-> NoError]


\* ---------------------------------------------------------------- text
\* A text is the sequence of its pieces: a piece is a single character or a
\* whole run of letters; the regular expressions of latexCompiler.ts are
\* matched on pieces.
Words ==
  {"a", "b", "x", "A", "B", "article", "Document",
   "documentclass", "begin", "end", "document", "itemize", "enumerate",
   "title", "author", "date", "today", "abstract",
   "section", "subsection", "subsubsection",
   "thebibliography", "bibitem",
   "textbf", "textit", "emph", "texttt", "cite", "ref", "label",
   "IEEEauthorblockN", "IEEEauthorblockA"}
Whitespace == {" ", "\n"}

Min(S) == CHOOSE k \in S : \A j \in S : k <= j
Max(S) == CHOOSE k \in S : \A j \in S : k >= j
MinOr(S, none) == IF S = {} THEN none ELSE Min(S)
\* first position from `from` on that holds a piece of S, 0 when there is none
FirstIn(t, from, S) == MinOr({k \in from..Len(t) : t[k] \in S}, 0)
\* last position of the longest run of pieces of S that starts at `from`
\* (from - 1 when the run is empty)
RunEnd(t, from, S) == MinOr({k \in from..Len(t) : t[k] \notin S}, Len(t) + 1) - 1

RECURSIVE TrimStart(_)
TrimStart(t) ==
  IF t # <<>> /\ Head(t) \in Whitespace THEN TrimStart(Tail(t)) ELSE t
RECURSIVE TrimEnd(_)
TrimEnd(t) ==
  IF t # <<>> /\ t[Len(t)] \in Whitespace
  THEN TrimEnd(SubSeq(t, 1, Len(t) - 1)) ELSE t
trim(t) == TrimEnd(TrimStart(t))

NoMatch == [found |-> FALSE, open |-> 0, close |-> 0]
\* the position after NAME\*? when NAME ends at e
CommandOpen(t, e, star) ==
  IF star /\ e + 1 <= Len(t) /\ t[e + 1] = "*" THEN e + 2 ELSE e + 1
\* \{([^}]*)\} with the opening brace at o and the first closing brace at k
CommandBraces(t, o, k, nonEmpty) ==
  IF /\ o <= Len(t) /\ t[o] = "{"
     /\ k # 0
     /\ nonEmpty => k > o + 1
  THEN [found |-> TRUE, open |-> o, close |-> k]
  ELSE NoMatch
CommandArgument(t, o, nonEmpty) ==
  CommandBraces(t, o, FirstIn(t, o + 1, {"}"}), nonEmpty)
\* /\\NAME\*?\{([^}]*)\}/ anchored at position i: NAME is one piece of
\* `names`, or a run of letters when letters is TRUE; the argument must be
\* non-empty when nonEmpty is TRUE ([^}]+)
CommandAt(t, i, names, letters, star, nonEmpty) ==
  IF ~(i + 1 <= Len(t) /\ t[i] = "\\" /\ t[i + 1] \in names) THEN NoMatch
  ELSE CommandArgument(
         t, CommandOpen(t, IF letters THEN RunEnd(t, i + 1, Words) ELSE i + 1, star),
         nonEmpty)

\* the replacement string `with`, its piece "$1" standing for the argument
RECURSIVE Substitute(_, _)
Substitute(with, arg) ==
  IF with = <<>> THEN <<>>
  ELSE (IF Head(with) = "$1" THEN arg ELSE <<Head(with)>>)
         \o Substitute(Tail(with), arg)

\* .replace(/\\NAME\{([^}]*)\}/g, with), from position i on; m is the match
\* at position i
RECURSIVE ReplaceCommands(_, _, _, _, _, _, _)
RECURSIVE ReplaceMatched(_, _, _, _, _, _, _, _)
ReplaceMatched(t, i, m, names, letters, star, nonEmpty, with) ==
  IF m.found
  THEN Substitute(with, SubSeq(t, m.open + 1, m.close - 1))
         \o ReplaceCommands(t, m.close + 1, names, letters, star, nonEmpty, with)
  ELSE <<t[i]>> \o ReplaceCommands(t, i + 1, names, letters, star, nonEmpty, with)
ReplaceCommands(t, i, names, letters, star, nonEmpty, with) ==
  IF i > Len(t) THEN <<>>
  ELSE ReplaceMatched(t, i, CommandAt(t, i, names, letters, star, nonEmpty),
                      names, letters, star, nonEmpty, with)

\* .replace(/%.*$/gm, ''), from position i on
RECURSIVE RemoveComments(_, _)
CommentEnd(t, i) == MinOr({k \in i..Len(t) : t[k] = "\n"}, Len(t) + 1)
RemoveComments(t, i) ==
  IF i > Len(t) THEN <<>>
  ELSE IF t[i] = "%" THEN RemoveComments(t, CommentEnd(t, i))
  ELSE <<t[i]>> \o RemoveComments(t, i + 1)

\* .replace(/\\[a-zA-Z]+\*?/g, ''), from position i on
RECURSIVE RemoveCommands(_, _)
RemoveCommands(t, i) ==
  IF i > Len(t) THEN <<>>
  ELSE IF i + 1 <= Len(t) /\ t[i] = "\\" /\ t[i + 1] \in Words
  THEN RemoveCommands(t, CommandOpen(t, RunEnd(t, i + 1, Words), TRUE))
  ELSE <<t[i]>> \o RemoveCommands(t, i + 1)

\* the first $$ from position `from` on, 0 when there is none
DisplayDelimiter(t, from) ==
  MinOr({k \in from..(Len(t) - 1) : t[k] = "$" /\ t[k + 1] = "$"}, 0)

\* .replace(/\$\$[\s\S]*?\$\$/g, ' [Equation] '), from position i on; k is
\* the closing $$ of a formula opened at i
RECURSIVE ReplaceDisplayMath(_, _)
RECURSIVE ReplaceDisplayMatched(_, _, _)
ReplaceDisplayMatched(t, i, k) ==
  IF DisplayDelimiter(t, i) = i /\ k # 0
  THEN <<" ", "[Equation]", " ">> \o ReplaceDisplayMath(t, k + 2)
  ELSE <<t[i]>> \o ReplaceDisplayMath(t, i + 1)
ReplaceDisplayMath(t, i) ==
  IF i > Len(t) THEN <<>>
  ELSE ReplaceDisplayMatched(t, i, DisplayDelimiter(t, i + 2))

\* .replace(/\$[^$]*\$/g, ' [Math] '), from position i on; k is the next $
RECURSIVE ReplaceInlineMath(_, _)
RECURSIVE ReplaceInlineMatched(_, _, _)
ReplaceInlineMatched(t, i, k) ==
  IF t[i] = "$" /\ k # 0
  THEN <<" ", "[Math]", " ">> \o ReplaceInlineMath(t, k + 1)
  ELSE <<t[i]>> \o ReplaceInlineMath(t, i + 1)
ReplaceInlineMath(t, i) ==
  IF i > Len(t) THEN <<>>
  ELSE ReplaceInlineMatched(t, i, FirstIn(t, i + 1, {"$"}))

EndAt(t, j) == CommandAt(t, j, {"end"}, FALSE, FALSE, TRUE)
\* the first \end{...} after the \begin{...} matched as b, 0 when there is none
FirstEndAfter(t, b) ==
  IF b.found THEN MinOr({j \in (b.close + 1)..Len(t) : EndAt(t, j).found}, 0) ELSE 0

\* .replace(/\\begin\{[^}]+\}([\s\S]*?)\\end\{[^}]+\}/g, '$1'), from position
\* i on; b is the \begin{...} at i and j the position of its \end{...}
RECURSIVE UnwrapEnvironments(_, _)
RECURSIVE UnwrapMatched(_, _, _, _)
UnwrapMatched(t, i, b, j) ==
  IF j # 0
  THEN SubSeq(t, b.close + 1, j - 1) \o UnwrapEnvironments(t, EndAt(t, j).close + 1)
  ELSE <<t[i]>> \o UnwrapEnvironments(t, i + 1)
UnwrapFrom(t, i, b) == UnwrapMatched(t, i, b, FirstEndAfter(t, b))
UnwrapEnvironments(t, i) ==
  IF i > Len(t) THEN <<>>
  ELSE UnwrapFrom(t, i, CommandAt(t, i, {"begin"}, FALSE, FALSE, TRUE))

\* .replace(/\s+/g, ' ')
RECURSIVE CollapseWhitespace(_, _)
CollapseWhitespace(t, i) ==
  IF i > Len(t) THEN <<>>
  ELSE IF t[i] \in Whitespace
  THEN <<" ">> \o CollapseWhitespace(t, RunEnd(t, i, Whitespace) + 1)
  ELSE <<t[i]>> \o CollapseWhitespace(t, i + 1)

\* the end of /\n\s*\n/ anchored at position i, 0 when it does not match
BlankLineAt(t, i) ==
  LET ks == {k \in (i + 1)..RunEnd(t, i + 1, Whitespace) : t[k] = "\n"}
  IN  IF t[i] = "\n" /\ ks # {} THEN Max(ks) ELSE 0

\* .replace(/\n\s*\n/g, '\n\n'), from position i on; e is the end of the
\* match at i
RECURSIVE NormalizeBlankLines(_, _)
RECURSIVE NormalizeMatched(_, _, _)
NormalizeMatched(t, i, e) ==
  IF e # 0 THEN <<"\n", "\n">> \o NormalizeBlankLines(t, e + 1)
  ELSE <<t[i]>> \o NormalizeBlankLines(t, i + 1)
NormalizeBlankLines(t, i) ==
  IF i > Len(t) THEN <<>> ELSE NormalizeMatched(t, i, BlankLineAt(t, i))

cleanLatexText(text) ==
  LET noComments == RemoveComments(text, 1)
      textbf == ReplaceCommands(noComments, 1, {"textbf"}, FALSE, FALSE, FALSE, <<"$1">>)
      textit == ReplaceCommands(textbf, 1, {"textit"}, FALSE, FALSE, FALSE, <<"$1">>)
      emph == ReplaceCommands(textit, 1, {"emph"}, FALSE, FALSE, FALSE, <<"$1">>)
      texttt == ReplaceCommands(emph, 1, {"texttt"}, FALSE, FALSE, FALSE, <<"$1">>)
      cite == ReplaceCommands(texttt, 1, {"cite"}, FALSE, FALSE, FALSE, <<"[citation]">>)
      ref == ReplaceCommands(cite, 1, {"ref"}, FALSE, FALSE, FALSE, <<"[ref]">>)
      label == ReplaceCommands(ref, 1, {"label"}, FALSE, FALSE, FALSE, <<>>)
      unwrapped == ReplaceCommands(label, 1, Words, TRUE, TRUE, FALSE, <<"$1">>)
      noCommands == RemoveCommands(unwrapped, 1)
      noMath == ReplaceInlineMath(ReplaceDisplayMath(noCommands, 1), 1)
      noEnvironments == UnwrapEnvironments(noMath, 1)
  IN  trim(NormalizeBlankLines(CollapseWhitespace(noEnvironments, 1), 1))


\* ---------------------------------------------------------------- parseLatexContent
TicksPerSecond == 2
TicksPerDay == 2 * TicksPerSecond
\* new Date().toISOString(): one string per instant
toISOString(now) == now
\* new Date().toLocaleString(): date and time to the second
toLocaleString(now) == now \div TicksPerSecond
\* new Date().toLocaleDateString(): the calendar date
toLocaleDateString(now) == IF now \div TicksPerDay = 0 THEN "<date>" ELSE "<later date>"

MatchesAt(t, k, pattern) ==
  /\ k + Len(pattern) - 1 <= Len(t)
  /\ SubSeq(t, k, k + Len(pattern) - 1) = pattern
\* first position from `from` on where the pattern stands, 0 when none
FindSeq(t, from, pattern) ==
  LET ks == {k \in from..Len(t) : MatchesAt(t, k, pattern)}
  IN  IF ks = {} THEN 0 ELSE Min(ks)

\* latexCode.match(/\\NAME\{([^}]+)\}/): the first match
FirstCommand(t, name, nonEmpty) ==
  LET is == {i \in DOMAIN t : CommandAt(t, i, {name}, FALSE, FALSE, nonEmpty).found}
  IN  IF is = {} THEN NoMatch
      ELSE CommandAt(t, Min(is), {name}, FALSE, FALSE, nonEmpty)
Argument(t, m) == SubSeq(t, m.open + 1, m.close - 1)

\* .replace(/\\\\/g, '\n')
RECURSIVE ReplaceLineBreaks(_, _)
ReplaceLineBreaks(t, i) ==
  IF i > Len(t) THEN <<>>
  ELSE IF i + 1 <= Len(t) /\ t[i] = "\\" /\ t[i + 1] = "\\"
  THEN <<"\n">> \o ReplaceLineBreaks(t, i + 2)
  ELSE <<t[i]>> \o ReplaceLineBreaks(t, i + 1)

parseAuthor(authorText) ==
  LET blockN == ReplaceCommands(authorText, 1, {"IEEEauthorblockN"},
                                FALSE, FALSE, TRUE, <<"$1">>)
      blockA == ReplaceCommands(blockN, 1, {"IEEEauthorblockA"},
                                FALSE, FALSE, TRUE, <<"\n", "$1">>)
      textit == ReplaceCommands(blockA, 1, {"textit"}, FALSE, FALSE, TRUE, <<"$1">>)
      textbf == ReplaceCommands(textit, 1, {"textbf"}, FALSE, FALSE, TRUE, <<"$1">>)
  IN  trim(CollapseWhitespace(ReplaceLineBreaks(textbf, 1), 1))

\* dateMatch[1].replace(/\\today/, new Date().toLocaleDateString())
ReplaceToday(t, now) ==
  LET k == FindSeq(t, 1, <<"\\", "today">>)
  IN  IF k = 0 THEN t
      ELSE SubSeq(t, 1, k - 1) \o <<toLocaleDateString(now)>>
             \o SubSeq(t, k + 2, Len(t))

BeginAbstract == <<"\\", "begin", "{", "abstract", "}">>
EndAbstract == <<"\\", "end", "{", "abstract", "}">>
BeginTheBibliography == <<"\\", "begin", "{", "thebibliography", "}">>
EndTheBibliography == <<"\\", "end", "{", "thebibliography", "}">>

\* text.split(/\n\s*\n/)
RECURSIVE SplitParagraphs(_)
SplitParagraphs(t) ==
  LET is == {i \in DOMAIN t : BlankLineAt(t, i) # 0}
  IN  IF is = {} THEN <<t>>
      ELSE <<SubSeq(t, 1, Min(is) - 1)>>
             \o SplitParagraphs(SubSeq(t, BlankLineAt(t, Min(is)) + 1, Len(t)))

RECURSIVE CleanEach(_)
CleanEach(paragraphs) ==
  IF paragraphs = <<>> THEN <<>>
  ELSE <<cleanLatexText(Head(paragraphs))>> \o CleanEach(Tail(paragraphs))

extractParagraphs(text) ==
  SelectSeq(CleanEach(SplitParagraphs(text)), LAMBDA para : trim(para) # <<>>)

\* paragraphs.join('\n\n')
RECURSIVE Join(_)
Join(paragraphs) ==
  IF paragraphs = <<>> THEN <<>>
  ELSE IF Len(paragraphs) = 1 THEN Head(paragraphs)
  ELSE Head(paragraphs) \o <<"\n", "\n">> \o Join(Tail(paragraphs))

SectionCommands == {"section", "subsection", "subsubsection"}
Level(name) == IF name = "section" THEN 1 ELSE IF name = "subsection" THEN 2 ELSE 3
\* the lookahead of sectionRegex at position k
SectionEndAt(t, k) ==
  /\ t[k] = "\\"
  /\ \/ k = Len(t)
     \/ k + 1 <= Len(t) /\ t[k + 1] \in SectionCommands
     \/ MatchesAt(t, k + 1, <<"end", "{", "document", "}">>)
     \/ MatchesAt(t, k + 1, <<"begin", "{", "thebibliography", "}">>)

\* variant: a section whose cleaned content is empty is kept
RECURSIVE extractSections_KeepsEmpty(_, _)
extractSections_KeepsEmpty(t, i) ==
  IF i > Len(t) THEN <<>>
  ELSE LET m == CommandAt(t, i, SectionCommands, FALSE, TRUE, TRUE)
           ks == IF m.found
                 THEN {k \in (m.close + 1)..Len(t) : SectionEndAt(t, k)}
                 ELSE {}
       IN  IF ks = {} THEN extractSections_KeepsEmpty(t, i + 1)
           ELSE <<[title |-> cleanLatexText(Argument(t, m)),
                   content |-> Join(extractParagraphs(
                                 SubSeq(t, m.close + 1, Min(ks) - 1))),
                   level |-> Level(t[i + 1])]>>
                  \o extractSections_KeepsEmpty(t, Min(ks))

\* the while loop over sectionRegex.exec, from position i on
RECURSIVE extractSections(_, _)
extractSections(t, i) ==
  IF i > Len(t) THEN <<>>
  ELSE LET m == CommandAt(t, i, SectionCommands, FALSE, TRUE, TRUE)
           ks == IF m.found
                 THEN {k \in (m.close + 1)..Len(t) : SectionEndAt(t, k)}
                 ELSE {}
       IN  IF ks = {} THEN extractSections(t, i + 1)
           ELSE LET cleanContent ==
                      Join(extractParagraphs(SubSeq(t, m.close + 1, Min(ks) - 1)))
                IN  (IF trim(cleanContent) # <<>>
                     THEN <<[title |-> cleanLatexText(Argument(t, m)),
                             content |-> cleanContent,
                             level |-> Level(t[i + 1])]>>
                     ELSE <<>>)
                      \o extractSections(t, Min(ks))

\* bibMatch[0].match(/\\bibitem\{[^}]+\}([^\\]+)/g), each item without its
\* \bibitem{...} and cleaned
RECURSIVE BibItems(_, _)
BibItems(t, i) ==
  IF i > Len(t) THEN <<>>
  ELSE LET m == CommandAt(t, i, {"bibitem"}, FALSE, FALSE, TRUE)
           next == IF m.found THEN FirstIn(t, m.close + 1, {"\\"}) ELSE 0
           last == IF next = 0 THEN Len(t) ELSE next - 1
       IN  IF m.found /\ last > m.close
           THEN <<cleanLatexText(SubSeq(t, m.close + 1, last))>>
                  \o BibItems(t, last + 1)
           ELSE BibItems(t, i + 1)

extractBibliography(t) ==
  LET b == FindSeq(t, 1, BeginTheBibliography)
      e == IF b = 0 THEN 0
           ELSE FindSeq(t, b + Len(BeginTheBibliography), EndTheBibliography)
  IN  IF e = 0 THEN <<>>
      ELSE BibItems(SubSeq(t, b, e + Len(EndTheBibliography) - 1), 1)

\* latexCode.match(/\$\$[\s\S]*?\$\$/g), each without its $$ and trimmed
RECURSIVE extractEquations(_, _)
extractEquations(t, i) ==
  IF i > Len(t) THEN <<>>
  ELSE LET ks == {k \in (i + 2)..(Len(t) - 1) : t[k] = "$" /\ t[k + 1] = "$"}
       IN  IF i + 1 <= Len(t) /\ t[i] = "$" /\ t[i + 1] = "$" /\ ks # {}
           THEN <<trim(SubSeq(t, i + 2, Min(ks) - 1))>>
                  \o extractEquations(t, Min(ks) + 2)
           ELSE extractEquations(t, i + 1)

\* variant: the title starts out empty
DefaultContent_NoTitle(now) ==
  [title |-> <<>>, author |-> <<>>, date |-> <<>>, abstract |-> <<>>,
   sections |-> <<>>, bibliography |-> <<>>, equations |-> <<>>,
   figures |-> <<>>, compiledAt |-> toISOString(now)]

DefaultContent(now) ==
  [title |-> <<"Document">>, author |-> <<>>, date |-> <<>>, abstract |-> <<>>,
   sections |-> <<>>, bibliography |-> <<>>, equations |-> <<>>,
   figures |-> <<>>, compiledAt |-> toISOString(now)]

parseLatexContent(latexCode, now) ==
  LET titleMatch == FirstCommand(latexCode, "title", TRUE)
      authorMatch == FirstCommand(latexCode, "author", FALSE)
      dateMatch == FirstCommand(latexCode, "date", TRUE)
      abstractBegin == FindSeq(latexCode, 1, BeginAbstract)
      abstractEnd == IF abstractBegin = 0 THEN 0
                     ELSE FindSeq(latexCode, abstractBegin + Len(BeginAbstract),
                                  EndAbstract)
      content == DefaultContent(now)
  IN  [content EXCEPT
         !.title = IF titleMatch.found
                   THEN cleanLatexText(Argument(latexCode, titleMatch)) ELSE @,
         !.author = IF authorMatch.found
                    THEN parseAuthor(Argument(latexCode, authorMatch)) ELSE @,
         !.date = IF dateMatch.found
                  THEN ReplaceToday(Argument(latexCode, dateMatch), now) ELSE @,
         !.abstract = IF abstractEnd # 0
                      THEN cleanLatexText(
                             SubSeq(latexCode, abstractBegin + Len(BeginAbstract),
                                    abstractEnd - 1))
                      ELSE @,
         !.sections = extractSections(latexCode, 1),
         !.bibliography = extractBibliography(latexCode),
         !.equations = extractEquations(latexCode, 1)]


\* ---------------------------------------------------------------- generateEnhancedPdf
margin == 60
maxWidth == 794 - 2 * margin
\* A word is given by the width ctx.measureText reports for it; the empty
\* word, which split(' ') yields between two spaces, has width 0.
SpaceWidth == 4
RECURSIVE Sum(_)
Sum(ws) == IF ws = <<>> THEN 0 ELSE Head(ws) + Sum(Tail(ws))
\* ctx.measureText(line).width of the words of `line` joined by single spaces
measureText(line) ==
  IF line = <<>> THEN 0 ELSE Sum(line) + SpaceWidth * (Len(line) - 1)
\* currentLine + (currentLine ? ' ' : '') + word
TestLine(currentLine, word) ==
  IF currentLine # <<>> THEN Append(currentLine, word)
  ELSE IF word = 0 THEN <<>> ELSE <<word>>

\* variant: the line built so far is measured, not the line with the word added
RECURSIVE WrapLoop_MeasuresCurrentLine(_, _, _, _)
WrapLoop_MeasuresCurrentLine(words, i, currentLine, lines) ==
  IF i > Len(words)
  THEN IF currentLine # <<>> THEN Append(lines, currentLine) ELSE lines
  ELSE IF measureText(currentLine) > maxWidth /\ currentLine # <<>>
  THEN WrapLoop_MeasuresCurrentLine(words, i + 1, TestLine(<<>>, words[i]),
                                    Append(lines, currentLine))
  ELSE WrapLoop_MeasuresCurrentLine(words, i + 1, TestLine(currentLine, words[i]),
                                    lines)

\* variant: the word that did not fit is not carried over to the new line
RECURSIVE WrapLoop_DropsCarriedWord(_, _, _, _)
WrapLoop_DropsCarriedWord(words, i, currentLine, lines) ==
  IF i > Len(words)
  THEN IF currentLine # <<>> THEN Append(lines, currentLine) ELSE lines
  ELSE IF measureText(TestLine(currentLine, words[i])) > maxWidth /\ currentLine # <<>>
  THEN WrapLoop_DropsCarriedWord(words, i + 1, <<>>, Append(lines, currentLine))
  ELSE WrapLoop_DropsCarriedWord(words, i + 1, TestLine(currentLine, words[i]), lines)

\* the for loop of wrapText from word i on, and the final push
RECURSIVE WrapLoop(_, _, _, _)
WrapLoop(words, i, currentLine, lines) ==
  IF i > Len(words)
  THEN IF currentLine # <<>> THEN Append(lines, currentLine) ELSE lines
  ELSE IF measureText(TestLine(currentLine, words[i])) > maxWidth /\ currentLine # <<>>
  THEN WrapLoop(words, i + 1, TestLine(<<>>, words[i]), Append(lines, currentLine))
  ELSE WrapLoop(words, i + 1, TestLine(currentLine, words[i]), lines)

wrapText(words) == WrapLoop(words, 1, <<>>, <<>>)

\* What generateEnhancedPdf puts on the canvas: the fields of the content it
\* draws (equations, figures and compiledAt are never drawn) and the footer
\* `Compiled: ${new Date().toLocaleString()}`. canvas.toBlob encodes these
\* pixels, so equal drawings give equal bytes.
Canvas(content, now) ==
  [title |-> content.title, author |-> content.author, date |-> content.date,
   abstract |-> content.abstract, sections |-> content.sections,
   bibliography |-> content.bibliography, footer |-> toLocaleString(now)]

\* The drawing of generateEnhancedPdf. A text is given by the number of lines
\* wrapText returns for it (0 for the empty text, which is falsy); a page is
\* the vertical cursor y and the ctx.fillText calls made so far.
lineHeight == 18
BlankPage == [y |-> margin, drawn |-> <<>>]
fillText(page, kind) ==
  [page EXCEPT !.drawn = Append(@, [kind |-> kind, y |-> page.y])]
Advance(page, dy) == [page EXCEPT !.y = @ + dy]
\* lines.forEach(line => { ctx.fillText(line, x, y); y += step }), for n lines
DrawLines(page, n, kind, step) ==
  [y |-> page.y + n * step,
   drawn |-> page.drawn \o [i \in 1..n |-> [kind |-> kind, y |-> page.y + (i - 1) * step]]]

DrawTitle(page, content) == Advance(DrawLines(page, content.title, "title", 28), 15)
DrawAuthor(page, content) ==
  IF content.author > 0
  THEN Advance(DrawLines(page, content.author, "author", 20), 10)
  ELSE page
DrawDate(page, content) ==
  Advance(IF content.date THEN Advance(fillText(page, "date"), 25) ELSE page, 20)
DrawAbstract(page, content) ==
  IF content.abstract > 0
  THEN Advance(DrawLines(Advance(fillText(page, "abstract"), 22),
                         content.abstract, "abstract", lineHeight), 25)
  ELSE page

\* contentLines.forEach(line => { if (y > 1000) return; ... y += lineHeight })
RECURSIVE DrawContentLines(_, _)
DrawContentLines(page, n) ==
  IF n = 0 THEN page
  ELSE DrawContentLines(IF page.y > 1000 THEN page
                        ELSE Advance(fillText(page, "section body"), lineHeight),
                        n - 1)
\* paragraphs.forEach: a paragraph that is not blank is drawn and followed
\* by the paragraph spacing
RECURSIVE DrawParagraphs(_, _, _)
DrawParagraphs(page, paragraphs, i) ==
  IF i > Len(paragraphs) THEN page
  ELSE DrawParagraphs(IF paragraphs[i] > 0
                      THEN Advance(DrawContentLines(page, paragraphs[i]), 8)
                      ELSE page,
                      paragraphs, i + 1)
fontSize(section) ==
  IF section.level = 1 THEN 14 ELSE IF section.level = 2 THEN 12 ELSE 11
\* if (section.content) { ... y += 10 }: an empty content has no paragraphs
DrawSectionContent(page, section) ==
  IF section.paragraphs # <<>>
  THEN Advance(DrawParagraphs(page, section.paragraphs, 1), 10)
  ELSE page
DrawSection(page, section) ==
  IF page.y > 1000 THEN page
  ELSE DrawSectionContent(Advance(fillText(page, "section heading"),
                                  fontSize(section) + 8),
                          section)
RECURSIVE DrawSections(_, _, _)
DrawSections(page, sections, i) ==
  IF i > Len(sections) THEN page
  ELSE DrawSections(DrawSection(page, sections[i]), sections, i + 1)

\* content.bibliography.forEach: a reference is drawn whole when the cursor
\* is above 1050 at its first line
RECURSIVE DrawRefs(_, _, _)
DrawRefs(page, bibliography, i) ==
  IF i > Len(bibliography) THEN page
  ELSE DrawRefs(IF page.y < 1050
                THEN Advance(DrawLines(page, bibliography[i], "reference", 16), 4)
                ELSE page,
                bibliography, i + 1)
DrawBibliography(page, content) ==
  IF Len(content.bibliography) > 0 /\ page.y < 1000
  THEN DrawRefs(Advance(fillText(page, "references heading"), 22),
                content.bibliography, 1)
  ELSE page
\* ctx.fillText(`Compiled: ...`, 397, 1100): the cursor is not used
DrawFooter(page) ==
  [page EXCEPT !.drawn = Append(@, [kind |-> "footer", y |-> 1100])]

DrawPage(content) ==
  DrawFooter(
    DrawBibliography(
      DrawSections(
        DrawAbstract(DrawDate(DrawAuthor(DrawTitle(BlankPage, content), content),
                              content),
                     content),
        content.sections, 1),
      content))

\* ---------------------------------------------------------------- state
VARIABLES
  currentProject,    \* projectStore.currentProject: [id, latex_code] or NoProject
  mounted,           \* whether App renders <Preview /> (a user is signed in)
  instance,          \* number of the Preview instance mounted last
  pdfUrl,            \* Preview state: artifact reference or Null
  compilationError,  \* Preview state: error description or NoError
  isCompiling,       \* Preview state
  toast,             \* the last toast shown
  calls,             \* compileLatex calls not yet consumed by their handleCompile,
                     \* each with the id of the project its handleCompile closed over
  nextCall,          \* number of compileLatex calls started so far
  blobs,             \* object URLs created so far: [call, owner, revoked]
  singleton,         \* LatexCompiler.instance: Null or the one compiler object
  evaluation,        \* one application of a pure function: [fn, arg, done, result]
  clock,             \* the time new Date() returns, in ticks
  renders,           \* the artifacts of the local compilations finished so far
  saves,             \* updateProject calls in flight: [n, id, latex_code, pc, data]
  database,          \* the latex_code of each row of the projects table
  edits,             \* the values handleCodeChange was called with, in order
  storeError         \* projectStore.error

previewVars == <<mounted, instance, pdfUrl, compilationError, isCompiling,
                 toast, calls, nextCall, blobs, singleton>>

\* what the handlers of Preview and of the compile pipeline never touch
timeVars == <<clock, renders>>
saveVars == <<saves, database, edits, storeError>>
auxVars == <<evaluation, timeVars, saveVars>>
\* what the application of a pure function leaves alone
frameVars == <<currentProject, previewVars, timeVars, saveVars>>

vars == <<currentProject, mounted, instance, pdfUrl, compilationError,
          isCompiling, toast, calls, nextCall, blobs, singleton, evaluation,
          clock, renders, saves, database, edits, storeError>>

\* ---------------------------------------------------------------- compileLatex
\* the compiler object has no fields: it is the same value for every call
LatexCompilerObject == 1
getInstance(current) == IF current = Null THEN LatexCompilerObject ELSE current

\* variant: the alternative API is listed before LaTeX.Online
compilationMethods_Swapped ==
  <<"compileWithOverleafAPI", "compileWithLatexOnline", "fallbackCompilation">>

compilationMethods ==
  <<"compileWithLatexOnline", "compileWithOverleafAPI", "fallbackCompilation">>

\* step 1..3: the loop of compileLatex; step 4: the call after the loop
AfterLoop == Len(compilationMethods) + 1
MethodAt(step) ==
  IF step <= Len(compilationMethods) THEN compilationMethods[step]
  ELSE "fallbackCompilation"

Success == [type |-> "success", error |-> NoError]
Failure(kind) == [type |-> "failure", error |-> Err(kind)]
Throw(kind) == [type |-> "throw", error |-> Err(kind)]

\* what each strategy can do when it settles
compileWithLatexOnline ==
  {Success, Throw("Transport"), Throw("NonSuccessStatus"), Throw("MalformedPayload")}
compileWithOverleafAPI == {Throw("AlternativeApiNotAvailable")}
\* parseLatexContent is total; generateEnhancedPdf yields a blob or throws
generateEnhancedPdf == {"blob", "throws"}
\* variant: fallbackCompilation without its try/catch
fallbackCompilation_NoCatch ==
  {IF rendered = "blob" THEN Success ELSE Throw("RasterizationFailed") :
     rendered \in generateEnhancedPdf}

\* what fallbackCompilation returns when generateEnhancedPdf ends as `rendered`
LocalResult(rendered) ==
  IF rendered = "blob" THEN Success ELSE Failure("LocalCompilationFailed")

fallbackCompilation == {LocalResult(rendered) : rendered \in generateEnhancedPdf}

NoResult == [success |-> FALSE, pdfUrl |-> Null, error |-> NoError]

\* URL.createObjectURL: the new reference is the index of the new entry
createObjectURL(c) ==
  Append(blobs, [call |-> c.id, owner |-> c.owner, revoked |-> 0])

\* an entry of a call's trace: a method it invoked and how that method settled
Invoked(method) == [method |-> method, outcome |-> "pending"]
Settled(c, outcome) == [c EXCEPT !.trace[Len(c.trace)].outcome = outcome.type]

\* variant: the validation result is not acted upon
compileLatex_SkipsValidation(id, owner, latexCode) ==
  [id |-> id, owner |-> owner, latexCode |-> latexCode,
   step |-> 1, pc |-> "awaiting", trace |-> <<Invoked(MethodAt(1))>>,
   warned |-> <<>>, result |-> NoResult]

\* the synchronous head of compileLatex: validate, then invoke the first method
compileLatex(id, owner, latexCode) ==
  LET validationResult == validateLatex(latexCode)
      call == [id |-> id, owner |-> owner, latexCode |-> latexCode,
               step |-> 0, pc |-> "resolved", trace |-> <<>>,
               warned |-> <<>>, result |-> NoResult]
  IN IF ~validationResult.isValid
     THEN [call EXCEPT !.result = [success |-> FALSE, pdfUrl |-> Null,
                                   error |-> validationResult.error]]
     ELSE [call EXCEPT !.step = 1, !.pc = "awaiting",
                       !.trace = <<Invoked(MethodAt(1))>>]

\* a method that threw or returned a failure inside the loop: try the next one
NextMethod(c) ==
  [c EXCEPT !.step = c.step + 1,
            !.trace = Append(c.trace, Invoked(MethodAt(c.step + 1)))]

\* variant: a successful result inside the loop is not returned
MethodSettled_IgnoresSuccess(call, outcome, url) ==
  LET c == Settled(call, outcome) IN
  IF c.step < AfterLoop
  THEN IF outcome.type = "throw"
       THEN NextMethod([c EXCEPT !.warned = Append(c.warned, outcome.error)])
       ELSE NextMethod(c)
  ELSE [c EXCEPT !.pc = IF outcome.type = "throw" THEN "rejected" ELSE "resolved",
                 !.result = IF outcome.type = "success"
                            THEN [success |-> TRUE, pdfUrl |-> url, error |-> NoError]
                            ELSE [success |-> FALSE, pdfUrl |-> Null,
                                  error |-> outcome.error]]

\* variant: when every method failed, the last logged error is surfaced
MethodSettled_SurfacesLastError(call, outcome, url) ==
  LET c == Settled(call, outcome) IN
  IF outcome.type = "success"
  THEN [c EXCEPT !.pc = "resolved",
                 !.result = [success |-> TRUE, pdfUrl |-> url, error |-> NoError]]
  ELSE IF c.step < AfterLoop
  THEN IF outcome.type = "throw"
       THEN NextMethod([c EXCEPT !.warned = Append(c.warned, outcome.error)])
       ELSE NextMethod(c)
  ELSE [c EXCEPT !.pc = IF outcome.type = "throw" THEN "rejected" ELSE "resolved",
                 !.result = [success |-> FALSE, pdfUrl |-> Null,
                             error |-> IF c.warned # <<>>
                                       THEN c.warned[Len(c.warned)]
                                       ELSE outcome.error]]

\* the body of the loop and the return after it, for the method call c awaits
MethodSettled(call, outcome, url) ==
  LET c == Settled(call, outcome) IN
  IF c.step < AfterLoop
  THEN CASE outcome.type = "success" ->
              [c EXCEPT !.pc = "resolved",
                        !.result = [success |-> TRUE, pdfUrl |-> url, error |-> NoError]]
         [] outcome.type = "failure" -> NextMethod(c)
         [] outcome.type = "throw" ->
              NextMethod([c EXCEPT !.warned = Append(c.warned, outcome.error)])
  ELSE CASE outcome.type = "success" ->
              [c EXCEPT !.pc = "resolved",
                        !.result = [success |-> TRUE, pdfUrl |-> url, error |-> NoError]]
         [] outcome.type = "failure" ->
              [c EXCEPT !.pc = "resolved",
                        !.result = [success |-> FALSE, pdfUrl |-> Null,
                                    error |-> outcome.error]]
         [] outcome.type = "throw" ->
              [c EXCEPT !.pc = "rejected",
                        !.result = [success |-> FALSE, pdfUrl |-> Null,
                                    error |-> outcome.error]]

\* ---------------------------------------------------------------- Preview
\* variant: the source is not trimmed before it is tested
HasCode_NoTrim(project) == project # NoProject /\ project.latex_code # <<>>

HasCode(project) == project # NoProject /\ trim(project.latex_code) # <<>>

\* LatexCompiler.cleanupPdfUrl
\* variant: the blob: test never matches, nothing is revoked
cleanupPdfUrl_NeverRevokes(url, bs) == bs

cleanupPdfUrl(url, bs) ==
  IF url \in DOMAIN bs THEN [bs EXCEPT ![url].revoked = @ + 1] ELSE bs

\* the cleanup of the effect keyed on [pdfUrl], run when pdfUrl changes
\* variant: the cleanup revokes the value pdfUrl has now, not its old value
PdfUrlEffectCleanup_RevokesNew(old, new, bs) ==
  IF old # new /\ new # Null THEN cleanupPdfUrl(new, bs) ELSE bs

PdfUrlEffectCleanup(old, new, bs) ==
  IF old # new /\ old # Null THEN cleanupPdfUrl(old, bs) ELSE bs

\* release-and-clear, as handleCompile and the project-change effect do it
ReleaseHeld(url, bs) ==
  IF url # Null THEN cleanupPdfUrl(url, bs) ELSE bs

NoEvaluation == [fn |-> "none", arg |-> <<>>, done |-> FALSE, result |-> <<>>]

PreviewInit ==
  /\ mounted = FALSE
  /\ instance = 0
  /\ pdfUrl = Null
  /\ compilationError = NoError
  /\ isCompiling = FALSE
  /\ toast = ""
  /\ calls = {}
  /\ nextCall = 0
  /\ blobs = <<>>
  /\ singleton = Null

TimeInit ==
  /\ clock = 0
  /\ renders = <<>>

SaveInit ==
  /\ saves = {}
  /\ database = [id \in ProjectIds |-> <<>>]
  /\ edits = <<>>
  /\ storeError = ""

Init ==
  /\ currentProject = NoProject
  /\ PreviewInit
  /\ evaluation = NoEvaluation
  /\ TimeInit
  /\ SaveInit

Mount ==
  /\ ~mounted
  /\ instance < MaxMounts
  /\ mounted' = TRUE
  /\ instance' = instance + 1
  /\ pdfUrl' = Null
  /\ compilationError' = NoError
  /\ isCompiling' = FALSE
  /\ UNCHANGED <<currentProject, toast, calls, nextCall, blobs>>
  /\ UNCHANGED <<singleton, auxVars>>

Unmount ==
  /\ mounted
  /\ mounted' = FALSE
  /\ blobs' = ReleaseHeld(pdfUrl, blobs)
  /\ pdfUrl' = Null
  /\ compilationError' = NoError
  /\ isCompiling' = FALSE
  /\ UNCHANGED <<currentProject, instance, toast, calls, nextCall>>
  /\ UNCHANGED <<singleton, auxVars>>

\* the effect keyed on [currentProject?.id], then the re-render it causes
ProjectIdChanged ==
  /\ blobs' = PdfUrlEffectCleanup(pdfUrl, Null, ReleaseHeld(pdfUrl, blobs))
  /\ pdfUrl' = Null
  /\ compilationError' = NoError
  /\ UNCHANGED isCompiling

StoreSet(project) ==
  /\ currentProject' = project
  /\ IF mounted /\ project.id # currentProject.id
     THEN ProjectIdChanged
     ELSE UNCHANGED <<pdfUrl, compilationError, isCompiling, blobs>>
  /\ UNCHANGED <<mounted, instance, toast, calls, nextCall>>
  /\ UNCHANGED <<singleton, auxVars>>

setCurrentProject ==
  \E project \in {NoProject} \cup [id : ProjectIds, latex_code : Sources] :
    /\ project # currentProject
    /\ StoreSet(project)

updateProject ==
  \E latexCode \in Sources :
    /\ currentProject # NoProject
    /\ latexCode # currentProject.latex_code
    /\ StoreSet([currentProject EXCEPT !.latex_code = latexCode])

\* variant: the Compile button is not disabled while a compile is running
CompileButtonEnabled_WhileCompiling == HasCode(currentProject)

CompileButtonEnabled == ~isCompiling /\ HasCode(currentProject)
TryAgainShown == compilationError # NoError
CompileDocumentEnabled ==
  compilationError = NoError /\ ~isCompiling /\ pdfUrl = Null /\ HasCode(currentProject)

handleCompileNoCode ==
  /\ mounted
  /\ TryAgainShown
  /\ ~HasCode(currentProject)
  /\ toast' = "No LaTeX code to compile"
  /\ UNCHANGED <<currentProject, mounted, instance, pdfUrl, compilationError,
                 isCompiling, calls, nextCall, blobs>>
  /\ UNCHANGED <<singleton, auxVars>>

handleCompile ==
  /\ mounted
  /\ CompileButtonEnabled \/ TryAgainShown \/ CompileDocumentEnabled
  /\ HasCode(currentProject)
  /\ nextCall < MaxCalls
  /\ isCompiling' = TRUE
  /\ compilationError' = NoError
  /\ blobs' = PdfUrlEffectCleanup(pdfUrl, Null, ReleaseHeld(pdfUrl, blobs))
  /\ pdfUrl' = Null
  /\ toast' = "Compiling LaTeX document..."
  /\ nextCall' = nextCall + 1
  /\ calls' = calls \cup
       {compileLatex(nextCall + 1, instance,
                     <<TimestampComment>> \o currentProject.latex_code)
          @@ [project |-> currentProject.id]}
  /\ singleton' = getInstance(singleton)
  /\ UNCHANGED <<currentProject, mounted, instance>>
  /\ UNCHANGED auxVars

\* variant: the awaited method and its result are kept on the shared compiler
\* object, so every call that awaits the same method settles with them
Settle_SharedOutcome(c, outcome) ==
  /\ blobs' = IF outcome.type = "success" THEN createObjectURL(c) ELSE blobs
  /\ calls' = {IF d.pc = "awaiting" /\ d.step = c.step
               THEN MethodSettled(d, outcome, Len(blobs')) ELSE d : d \in calls}
  /\ UNCHANGED <<currentProject, mounted, instance, pdfUrl, compilationError,
                 isCompiling, toast, nextCall>>
  /\ UNCHANGED <<singleton, auxVars>>

\* the method a call awaits settles
Settle(c, outcome) ==
  /\ blobs' = IF outcome.type = "success" THEN createObjectURL(c) ELSE blobs
  /\ calls' = (calls \ {c}) \cup {MethodSettled(c, outcome, Len(blobs'))}
  /\ UNCHANGED <<currentProject, mounted, instance, pdfUrl, compilationError,
                 isCompiling, toast, nextCall>>
  /\ UNCHANGED <<singleton, auxVars>>

LatexOnlineSettles ==
  \E c \in calls : \E outcome \in compileWithLatexOnline :
    /\ c.pc = "awaiting"
    /\ MethodAt(c.step) = "compileWithLatexOnline"
    /\ Settle(c, outcome)

OverleafAPISettles ==
  \E c \in calls : \E outcome \in compileWithOverleafAPI :
    /\ c.pc = "awaiting"
    /\ MethodAt(c.step) = "compileWithOverleafAPI"
    /\ Settle(c, outcome)

FallbackSettles ==
  \E c \in calls : \E outcome \in fallbackCompilation :
    /\ c.pc = "awaiting"
    /\ c.step < AfterLoop
    /\ MethodAt(c.step) = "fallbackCompilation"
    /\ Settle(c, outcome)

FallbackAfterLoopSettles ==
  \E c \in calls : \E outcome \in fallbackCompilation :
    /\ c.pc = "awaiting"
    /\ c.step = AfterLoop
    /\ Settle(c, outcome)

\* variant: a failure result is shown as the generic message
Displayed_GenericError(c) ==
  IF c.pc = "resolved" /\ c.result.success /\ c.result.pdfUrl # Null
  THEN [pdfUrl |-> c.result.pdfUrl, compilationError |-> NoError,
        toast |-> "Document compiled successfully!"]
  ELSE [pdfUrl |-> Null, compilationError |-> Err("UnknownCompilationError"),
        toast |-> "Compilation failed"]

\* what handleCompile does with the settled compileLatex promise
Displayed(c) ==
  IF c.pc = "resolved" /\ c.result.success /\ c.result.pdfUrl # Null
  THEN [pdfUrl |-> c.result.pdfUrl, compilationError |-> NoError,
        toast |-> "Document compiled successfully!"]
  ELSE IF c.pc = "resolved"
  THEN [pdfUrl |-> Null,
        compilationError |-> IF c.result.error # NoError THEN c.result.error
                             ELSE Err("UnknownCompilationError"),
        toast |-> "Compilation failed"]
  ELSE [pdfUrl |-> Null, compilationError |-> c.result.error,
        toast |-> "Compilation failed"]

handleCompileResume ==
  \E c \in calls :
    /\ c.pc \in {"resolved", "rejected"}
    /\ calls' = calls \ {c}
    /\ toast' = Displayed(c).toast
    /\ IF mounted /\ c.owner = instance
       THEN /\ pdfUrl' = IF Displayed(c).pdfUrl # Null THEN Displayed(c).pdfUrl ELSE pdfUrl
            /\ compilationError' = IF Displayed(c).pdfUrl # Null THEN compilationError
                                   ELSE Displayed(c).compilationError
            /\ isCompiling' = FALSE
            /\ blobs' = PdfUrlEffectCleanup(pdfUrl, pdfUrl', blobs)
       ELSE UNCHANGED <<pdfUrl, compilationError, isCompiling, blobs>>
    /\ UNCHANGED <<currentProject, mounted, instance, nextCall>>
    /\ UNCHANGED <<singleton, auxVars>>

handleDownloadPdf ==
  /\ mounted
  /\ pdfUrl # Null
  /\ toast' = "PDF downloaded!"
  /\ UNCHANGED <<currentProject, mounted, instance, pdfUrl, compilationError,
                 isCompiling, calls, nextCall, blobs>>
  /\ UNCHANGED <<singleton, auxVars>>

Next ==
  \/ Mount
  \/ Unmount
  \/ setCurrentProject
  \/ updateProject
  \/ handleCompileNoCode
  \/ handleCompile
  \/ LatexOnlineSettles
  \/ OverleafAPISettles
  \/ FallbackSettles
  \/ FallbackAfterLoopSettles
  \/ handleCompileResume
  \/ handleDownloadPdf

Spec == Init /\ [][Next]_vars

\* ---------------------------------------------------------------- validateLatex alone
BoundedSeq(S, n) == UNION {[1..k -> S] : k \in 0..n}

ValidateTokens ==
  {DocumentClass, BeginDocument, EndDocument, OpenBrace, CloseBrace,
   BeginItemize, EndEnumerate}

Pending(fn, arg, blank) == [fn |-> fn, arg |-> arg, done |-> FALSE, result |-> blank]

ValidateInit ==
  /\ currentProject = NoProject
  /\ PreviewInit
  /\ TimeInit
  /\ SaveInit
  /\ evaluation \in {Pending("validateLatex", latexCode, validateLatex(<<>>)) :
                       latexCode \in BoundedSeq(ValidateTokens, MaxSrcLen)}

ApplyValidateLatex ==
  /\ evaluation.fn = "validateLatex"
  /\ ~evaluation.done
  /\ evaluation' = [evaluation EXCEPT !.done = TRUE,
                                      !.result = validateLatex(evaluation.arg)]
  /\ UNCHANGED frameVars

ValidateSpec == ValidateInit /\ [][ApplyValidateLatex]_vars

\* ---------------------------------------------------------------- cleanLatexText alone
CleanPieces == {"\\", "a", "*", "{", "}", "$", " "}
\* a named environment block around a body
Environment(name, body) ==
  <<"\\", "begin", "{", name, "}">> \o body \o <<"\\", "end", "{", name, "}">>
EnvironmentNames == {"itemize", "a"}
PlainBodies == BoundedSeq({"a", " "}, MaxBodyLen)
EnvironmentTexts ==
  {Environment(name, body) : name \in EnvironmentNames, body \in PlainBodies}

CleanInit ==
  /\ currentProject = NoProject
  /\ PreviewInit
  /\ TimeInit
  /\ SaveInit
  /\ evaluation \in {Pending("cleanLatexText", text, <<>>) :
                       text \in BoundedSeq(CleanPieces, MaxTextLen)
                                  \cup EnvironmentTexts}

ApplyCleanLatexText ==
  /\ evaluation.fn = "cleanLatexText"
  /\ ~evaluation.done
  /\ evaluation' = [evaluation EXCEPT !.done = TRUE,
                                      !.result = cleanLatexText(Text(evaluation.arg))]
  /\ UNCHANGED frameVars

CleanSpec == CleanInit /\ [][ApplyCleanLatexText]_vars

\* ---------------------------------------------------------------- fallbackCompilation alone
ExtractTokens ==
  {SectionA, SubsectionB, SubsubsectionStarA, "x", LabelA, EndDocument}

\* the minimal source, a title alone, and a section of two paragraphs
ExtraSources ==
  {MinimalSource, <<TitleA>>, <<SectionA, "x", BlankLine, "x", EndDocument>>}

\* a bibliography environment around items, plain text and commands
BibliographySource(body) == BeginTheBibliography \o body \o EndTheBibliography
BibliographyBodies == BoundedSeq({BibitemA, "x", EmphY}, MaxBibLen)
BibliographySources == {BibliographySource(body) : body \in BibliographyBodies}

ExtractInit ==
  /\ currentProject = NoProject
  /\ PreviewInit
  /\ TimeInit
  /\ SaveInit
  /\ evaluation \in
       {Pending("fallbackCompilation", latexCode,
                [parsedContent |-> DefaultContent(0), rendered |-> "",
                 outcome |-> Success]) :
          latexCode \in BoundedSeq(ExtractTokens, MaxDocLen) \cup ExtraSources
                          \cup BibliographySources}

ApplyFallbackCompilation ==
  /\ evaluation.fn = "fallbackCompilation"
  /\ ~evaluation.done
  /\ \E rendered \in generateEnhancedPdf :
       evaluation' =
         [evaluation EXCEPT
            !.done = TRUE,
            !.result = [parsedContent |->
                          parseLatexContent(Text(evaluation.arg), clock),
                        rendered |-> rendered,
                        outcome |-> LocalResult(rendered)]]
  /\ UNCHANGED frameVars

ExtractSpec == ExtractInit /\ [][ApplyFallbackCompilation]_vars

\* ---------------------------------------------------------------- wrapText alone
\* the empty word, two words that fit on a line together exactly, a word that
\* does not fit beside either of them, and a word wider than a line
WordWidths == {0, 300, 370, 400, 700}

WrapInit ==
  /\ currentProject = NoProject
  /\ PreviewInit
  /\ TimeInit
  /\ SaveInit
  /\ evaluation \in {Pending("wrapText", words, <<>>) :
                       words \in BoundedSeq(WordWidths, MaxWords)}

ApplyWrapText ==
  /\ evaluation.fn = "wrapText"
  /\ ~evaluation.done
  /\ evaluation' = [evaluation EXCEPT !.done = TRUE,
                                      !.result = wrapText(evaluation.arg)]
  /\ UNCHANGED frameVars

WrapSpec == WrapInit /\ [][ApplyWrapText]_vars

\* ---------------------------------------------------------------- the drawing alone
\* abstracts that end just above and just below the height 1000
AbstractLines == {0} \cup ((MaxAbstractLines - 3)..MaxAbstractLines)
SectionModels ==
  [level : {1, 2, 3}, paragraphs : BoundedSeq({0, 2}, MaxParagraphs)]
ContentModels ==
  [title : {0, 1}, author : {0, 1}, date : BOOLEAN, abstract : AbstractLines,
   sections : BoundedSeq(SectionModels, MaxSections),
   bibliography : BoundedSeq({1, MaxRefLines}, MaxRefs)]

DrawInit ==
  /\ currentProject = NoProject
  /\ PreviewInit
  /\ TimeInit
  /\ SaveInit
  /\ evaluation \in {Pending("generateEnhancedPdf", content, BlankPage) :
                       content \in ContentModels}

ApplyGenerateEnhancedPdf ==
  /\ evaluation.fn = "generateEnhancedPdf"
  /\ ~evaluation.done
  /\ evaluation' = [evaluation EXCEPT !.done = TRUE,
                                      !.result = DrawPage(evaluation.arg)]
  /\ UNCHANGED frameVars

DrawSpec == DrawInit /\ [][ApplyGenerateEnhancedPdf]_vars

\* ---------------------------------------------------------------- local compilations in time
RenderSources == {MinimalSource, <<TitleA>>, <<SectionA, "x", EndDocument>>}

Tick ==
  /\ clock < MaxClock
  /\ clock' = clock + 1
  /\ UNCHANGED <<currentProject, previewVars, evaluation, renders, saveVars>>

Drawing(r) == r.pc = "awaiting toBlob"

\* fallbackCompilation up to the await of generateEnhancedPdf: the content is
\* parsed and the canvas is drawn
fallbackCompilationStarts ==
  \E latexCode \in RenderSources :
    /\ Len(renders) < MaxRenders
    /\ \A n \in DOMAIN renders : ~Drawing(renders[n])
    /\ renders' = Append(renders,
                         [latexCode |-> latexCode,
                          pc |-> "awaiting toBlob",
                          canvas |-> Canvas(parseLatexContent(Text(latexCode), clock),
                                            clock),
                          outcome |-> Success])
    /\ UNCHANGED <<currentProject, previewVars, evaluation, clock, saveVars>>

\* toBlob calls back and fallbackCompilation returns
fallbackCompilationReturns ==
  \E n \in DOMAIN renders, rendered \in generateEnhancedPdf :
    /\ Drawing(renders[n])
    /\ renders' = [renders EXCEPT ![n].pc = "returned",
                                  ![n].outcome = LocalResult(rendered)]
    /\ UNCHANGED <<currentProject, previewVars, evaluation, clock, saveVars>>

RenderNext == Tick \/ fallbackCompilationStarts \/ fallbackCompilationReturns

RenderSpec == Init /\ [][RenderNext]_vars

\* ---------------------------------------------------------------- auto-save
EditValues == {<<"a">>, <<"b">>}

\* a project is open in the editor, its row as the store holds it
SaveSpecInit ==
  /\ PreviewInit
  /\ evaluation = NoEvaluation
  /\ TimeInit
  /\ SaveInit
  /\ currentProject \in {[id |-> id, latex_code |-> database[id]] : id \in ProjectIds}

\* Editor.handleCodeChange: updateProject is called and not awaited
handleCodeChange ==
  \E value \in EditValues :
    /\ currentProject # NoProject
    /\ Len(edits) < MaxEdits
    /\ edits' = Append(edits, value)
    /\ saves' = saves \cup {[n |-> Len(edits) + 1, id |-> currentProject.id,
                             latex_code |-> value, pc |-> "sent", data |-> <<>>]}
    /\ UNCHANGED <<currentProject, previewVars, evaluation, timeVars,
                   database, storeError>>

\* the update of one call reaches the table; the response carries the row
SupabaseUpdates ==
  \E save \in saves :
    /\ save.pc = "sent"
    /\ database' = [database EXCEPT ![save.id] = save.latex_code]
    /\ saves' = (saves \ {save})
                  \cup {[save EXCEPT !.pc = "responded", !.data = save.latex_code]}
    /\ UNCHANGED <<currentProject, previewVars, evaluation, timeVars,
                   edits, storeError>>

\* the update of one call fails; the response carries an error
SupabaseFails ==
  \E save \in saves :
    /\ save.pc = "sent"
    /\ saves' = (saves \ {save}) \cup {[save EXCEPT !.pc = "failed"]}
    /\ UNCHANGED <<currentProject, previewVars, evaluation, timeVars,
                   database, edits, storeError>>

\* updateProject after its await, without error: the store takes the row
updateProjectResumes ==
  \E save \in saves :
    /\ save.pc = "responded"
    /\ currentProject' =
         IF currentProject.id = save.id
         THEN [id |-> save.id, latex_code |-> save.data]
         ELSE currentProject
    /\ saves' = saves \ {save}
    /\ UNCHANGED <<previewVars, evaluation, timeVars, database, edits, storeError>>

\* updateProject after its await, with error: the store keeps the message
updateProjectThrows ==
  \E save \in saves :
    /\ save.pc = "failed"
    /\ storeError' = "update failed"
    /\ saves' = saves \ {save}
    /\ UNCHANGED <<currentProject, previewVars, evaluation, timeVars,
                   database, edits>>

SaveNext ==
  \/ handleCodeChange
  \/ SupabaseUpdates
  \/ SupabaseFails
  \/ updateProjectResumes
  \/ updateProjectThrows

SaveSpec == SaveSpecInit /\ [][SaveNext]_vars

TypeOK ==
  /\ mounted \in BOOLEAN
  /\ isCompiling \in BOOLEAN
  /\ instance \in 0..MaxMounts
  /\ nextCall \in 0..MaxCalls
  /\ pdfUrl \in {Null} \cup DOMAIN blobs
  /\ Cardinality(calls) <= nextCall

\* ================================================================ claims
StrategyOrder ==
  <<"compileWithLatexOnline", "compileWithOverleafAPI", "fallbackCompilation">>
Rank(method) == CHOOSE r \in DOMAIN StrategyOrder : StrategyOrder[r] = method
RemoteErrorKinds ==
  {"Transport", "NonSuccessStatus", "MalformedPayload", "AlternativeApiNotAvailable"}
Failed(entry) == entry.outcome \in {"failure", "throw"}
BlobsOf(c) == {b \in DOMAIN blobs : blobs[b].call = c.id}
MissingSome(latexCode) ==
  \E command \in {DocumentClass, BeginDocument, EndDocument} :
    \A i \in DOMAIN latexCode : latexCode[i] # command

\* C1: a compile call whose source fails validation has ended with a failure
\* result that carries the validation error and has invoked no strategy; a
\* source that lacks one of the three required markers fails with
\* MissingMarker.
C1_ValidationFailureInvokesNothing ==
  \A c \in calls :
    /\ ~validateLatex(c.latexCode).isValid =>
         /\ c.pc = "resolved"
         /\ c.trace = <<>>
         /\ BlobsOf(c) = {}
         /\ ~c.result.success
         /\ c.result.error = validateLatex(c.latexCode).error
    /\ MissingSome(c.latexCode) =>
         /\ c.result.error.kind = "MissingMarker"
         /\ c.trace = <<>>

C1_Witness ==
  \E c \in calls :
    /\ includes(c.latexCode, DocumentClass)
    /\ includes(c.latexCode, EndDocument)
    /\ ~includes(c.latexCode, BeginDocument)
    /\ c.pc = "resolved"
    /\ c.result.error.kind = "MissingMarker"

\* C2: the strategies of one call are invoked in the order LaTeX.Online,
\* alternative API, local fallback: a strategy is invoked only after every
\* earlier strategy was invoked and failed, and a strategy that succeeds is
\* the last one invoked and its result is the result of the call.
C2_StrategiesInFixedOrder ==
  \A c \in calls : \A i \in DOMAIN c.trace :
    /\ \A r \in 1..(Rank(c.trace[i].method) - 1) :
         \E j \in 1..(i - 1) :
           c.trace[j].method = StrategyOrder[r] /\ Failed(c.trace[j])
    /\ \A j \in 1..(i - 1) :
         Rank(c.trace[j].method) <= Rank(c.trace[i].method) /\ Failed(c.trace[j])
    /\ c.trace[i].outcome = "success" =>
         /\ i = Len(c.trace)
         /\ c.pc = "resolved"
         /\ c.result.success
         /\ BlobsOf(c) = {c.result.pdfUrl}

C2_Witness ==
  \E c \in calls :
    /\ Len(c.trace) = 3
    /\ c.trace[3].method = "fallbackCompilation"
    /\ c.trace[3].outcome = "success"
    /\ c.pc = "resolved"

\* C3: within one compile call every strategy is invoked at most once.
C3_EachStrategyAtMostOnce ==
  \A c \in calls : \A i, j \in DOMAIN c.trace :
    c.trace[i].method = c.trace[j].method => i = j

\* C4: a returned result with success = true refers to an artifact that this
\* call created, a returned result with success = false has no artifact
\* reference, and a call that has not succeeded has created no artifact.
C4_ResultConsistent ==
  \A c \in calls :
    /\ c.pc = "resolved" /\ c.result.success =>
         /\ c.result.pdfUrl # Null
         /\ BlobsOf(c) = {c.result.pdfUrl}
         /\ c.result.error = NoError
    /\ ~(c.pc = "resolved" /\ c.result.success) =>
         /\ c.result.pdfUrl = Null
         /\ BlobsOf(c) = {}

C4_Witness ==
  /\ \E c \in calls : c.pc = "resolved" /\ c.result.success
  /\ \E c \in calls : c.pc = "resolved" /\ ~c.result.success /\ Len(c.trace) > 0

\* C5: a compile call is never rejected: a strategy that throws or returns a
\* failure is followed by the next step of the pipeline, and a call that
\* awaits nothing has returned a result.
C5_CompileNeverRejects ==
  \A c \in calls :
    /\ c.pc \in {"awaiting", "resolved"}
    /\ c.pc = "awaiting" =>
         /\ c.step \in 1..AfterLoop
         /\ c.trace # <<>>
         /\ c.trace[Len(c.trace)].outcome = "pending"
    /\ c.pc = "resolved" =>
         /\ \A i \in DOMAIN c.trace : c.trace[i].outcome # "pending"
         /\ c.result.success \/ c.result.error # NoError
    /\ \A i \in DOMAIN c.trace :
         c.trace[i].outcome = "throw" => i < Len(c.trace)

C5_Witness ==
  \E c \in calls :
    /\ c.pc = "resolved"
    /\ \E i \in DOMAIN c.trace : c.trace[i].outcome = "throw"
    /\ \E i \in DOMAIN c.trace : c.trace[i].outcome = "failure"

\* C6: the result of a compile call never carries the error of a remote
\* strategy: after a remote failure a successful local fallback gives
\* success = true with no error, and when every strategy failed the error
\* is the local-failure description.
C6_NoRemoteErrorInResult ==
  \A c \in calls :
    c.pc = "resolved" =>
      /\ c.result.error.kind \notin RemoteErrorKinds
      /\ \A i \in DOMAIN c.warned : c.result.error # c.warned[i]
      /\ c.result.success => c.result.error = NoError
      /\ ~c.result.success /\ c.trace # <<>> =>
           c.result.error = Err("LocalCompilationFailed")

C6_Witness ==
  /\ \E c \in calls :
       c.pc = "resolved" /\ c.warned # <<>> /\ c.result.success
         /\ c.trace[Len(c.trace)].method = "fallbackCompilation"
  /\ \E c \in calls :
       c.pc = "resolved" /\ c.warned # <<>> /\ ~c.result.success

Unreleased == {b \in DOMAIN blobs : blobs[b].revoked = 0}
Released == {b \in DOMAIN blobs : blobs[b].revoked > 0}

\* C7: the release operation is invoked at most once on every artifact
\* reference.
C7_ReleasedAtMostOnce ==
  \A b \in DOMAIN blobs : blobs[b].revoked <= 1

\* C8: no artifact is left unreleased forever: an artifact that has not been
\* released is still held by the mounted Preview or is carried by the result
\* of a compile call whose handleCompile has yet to consume it.
C8_NoArtifactLeaked ==
  \A b \in Unreleased :
    \/ mounted /\ pdfUrl = b
    \/ \E c \in calls : c.result.pdfUrl = b

\* C9: the artifact reference held in pdfUrl has not been released.
C9_NoPrematureRelease ==
  pdfUrl # Null => pdfUrl \in Unreleased

C9_Witness ==
  /\ mounted
  /\ pdfUrl \in Unreleased
  /\ \E b \in Released : blobs[b].owner = instance

\* C10: of the artifacts created by the compile calls of one Preview instance
\* at most one is unreleased at any moment: the artifact held when a compile
\* starts is released before the new one is acquired.
C10_AtMostOneUnreleased ==
  /\ \A i \in 1..instance :
       Cardinality({b \in Unreleased : blobs[b].owner = i}) <= 1
  /\ \A c \in calls : \A b \in DOMAIN blobs :
       blobs[b].owner = c.owner /\ b \notin BlobsOf(c) => b \in Released

C10_Witness ==
  /\ mounted
  /\ pdfUrl \in Unreleased
  /\ blobs[pdfUrl].owner = instance
  /\ \E b \in Released : blobs[b].owner = instance /\ b < pdfUrl

\* the result a call must return, from its own source and its own trace only
OwnResult(c) ==
  IF ~validateLatex(c.latexCode).isValid
  THEN [success |-> FALSE, pdfUrl |-> Null, error |-> validateLatex(c.latexCode).error]
  ELSE IF \E i \in DOMAIN c.trace : c.trace[i].outcome = "success"
  THEN [success |-> TRUE, pdfUrl |-> CHOOSE b \in BlobsOf(c) : TRUE, error |-> NoError]
  ELSE [success |-> FALSE, pdfUrl |-> Null, error |-> Err("LocalCompilationFailed")]

OtherCallsUntouched ==
  \A c \in calls : \A d \in calls' :
    d.id = c.id =>
      /\ d.latexCode = c.latexCode /\ d.owner = c.owner
      /\ d # c => \A e \in calls \ {c} : e \in calls'

\* C11: concurrent compile calls on the shared compiler do not interfere: the
\* result of every call is the one its own source and its own strategy
\* outcomes give, a step of one call leaves every other call as it was, and
\* the shared compiler object is never changed once created.
C11_CallsDoNotInterfere ==
  /\ [](\A c \in calls : c.pc = "resolved" =>
          /\ BlobsOf(c) # {} \/ ~c.result.success
          /\ c.result = OwnResult(c))
  /\ [][OtherCallsUntouched]_vars
  /\ [][singleton # Null => singleton' = singleton]_vars

C11_Witness ==
  \E c, d \in calls :
    /\ c.id # d.id
    /\ c.pc = "resolved" /\ d.pc = "resolved"
    /\ c.trace # <<>> /\ d.trace # <<>>
    /\ c.result.success /\ ~d.result.success
    /\ singleton # Null

\* ---------------------------------------------------------------- Preview
\* handleCompile of the mounted Preview resumes with the settled call c
Completes(c) ==
  /\ c.pc \in {"resolved", "rejected"}
  /\ calls' = calls \ {c}
  /\ mounted /\ c.owner = instance

\* C25: after every completed handleCompile the displayed outcome matches the
\* compile result: a success with an artifact leaves pdfUrl holding that
\* artifact and no compilationError; a failure result or a thrown error
\* leaves compilationError holding the error description and pdfUrl null.
C25_DisplayedOutcomeMatchesResult ==
  [][\A c \in calls :
       Completes(c) =>
         IF c.pc = "resolved" /\ c.result.success
         THEN /\ pdfUrl' = c.result.pdfUrl /\ pdfUrl' # Null
              /\ compilationError' = NoError
         ELSE /\ compilationError' = c.result.error /\ compilationError' # NoError
              /\ pdfUrl' = Null]_vars

C25_Witness ==
  /\ mounted /\ ~isCompiling
  /\ nextCall > 0 /\ calls = {}
  /\ compilationError # NoError
  /\ pdfUrl = Null

\* C26: after the current project changes, Preview holds no artifact until a
\* compile started for the new project succeeds: pdfUrl never takes an
\* artifact compiled from the source of a project other than the current one.
C26_NoArtifactOfPreviousProject ==
  [][\A c \in calls :
       Completes(c) /\ pdfUrl' # Null /\ pdfUrl' # pdfUrl =>
         c.project = currentProject.id]_vars

\* the compile calls started by the mounted Preview that are in flight
OwnCalls == {c \in calls : c.owner = instance}

\* C27: isCompiling is true exactly while a compile call started by
\* handleCompile is in flight; at most one such call is in flight at any
\* time, and no compile trigger is available while isCompiling is true.
C27_CompilingIffCallInFlight ==
  mounted =>
    /\ isCompiling <=> OwnCalls # {}
    /\ Cardinality(OwnCalls) <= 1
    /\ isCompiling =>
         ~CompileButtonEnabled /\ ~TryAgainShown /\ ~CompileDocumentEnabled

C27_Witness ==
  /\ mounted /\ isCompiling
  /\ Cardinality(OwnCalls) = 1
  /\ \E c \in calls : c.owner # instance

\* no project is current, or its source is empty or whitespace only
NothingToCompile ==
  \A i \in DOMAIN currentProject.latex_code :
    currentProject.latex_code[i] \in Whitespace

\* C28: handleCompile invoked when the current project is absent or its
\* source is empty or whitespace-only invokes no compile and leaves pdfUrl,
\* compilationError and isCompiling unchanged, releasing no artifact.
C28_NoCodeNoCompile ==
  [][NothingToCompile =>
       /\ nextCall' = nextCall
       /\ toast' # toast /\ toast' = "No LaTeX code to compile" =>
            UNCHANGED <<pdfUrl, compilationError, isCompiling, calls, blobs>>]_vars

C28_Witness ==
  /\ mounted
  /\ currentProject # NoProject /\ currentProject.latex_code = <<" ">>
  /\ toast = "No LaTeX code to compile"
  /\ compilationError # NoError

\* ---------------------------------------------------------------- validateLatex
CountOf(piece, text) == Cardinality({i \in DOMAIN text : text[i] = piece})
\* occurrences of \word{name} in a text
CountMarkers(word, text) ==
  Cardinality({i \in DOMAIN text :
                 /\ i + 4 <= Len(text)
                 /\ text[i] = "\\" /\ text[i + 1] = word /\ text[i + 2] = "{"
                 /\ text[i + 3] \notin {"{", "}"} /\ text[i + 4] = "}"})
HasMarker(latexCode, word, name) ==
  LET text == Text(latexCode)
  IN  \E i \in DOMAIN text :
        /\ i + 1 <= Len(text)
        /\ text[i] = "\\" /\ text[i + 1] = word
        /\ name # "" => /\ i + 4 <= Len(text)
                        /\ text[i + 2] = "{"
                        /\ text[i + 3] = name
                        /\ text[i + 4] = "}"
HasAllMarkers(latexCode) ==
  /\ HasMarker(latexCode, "documentclass", "")
  /\ HasMarker(latexCode, "begin", "document")
  /\ HasMarker(latexCode, "end", "document")

Validated == evaluation.fn = "validateLatex" /\ evaluation.done
Opens == CountOf("{", Text(evaluation.arg))
Closes == CountOf("}", Text(evaluation.arg))
Begins == CountMarkers("begin", Text(evaluation.arg))
Ends == CountMarkers("end", Text(evaluation.arg))
Reports(kind, a, b) ==
  /\ ~evaluation.result.isValid
  /\ evaluation.result.error = [Err(kind) EXCEPT !.a = a, !.b = b]

\* C12 as stated: every source with unequal numbers of { and } fails with
\* UnbalancedBraces that reports the two numbers.
C12_UnequalBracesAlwaysReported ==
  Validated /\ Opens # Closes => Reports("UnbalancedBraces", Opens, Closes)

\* C12 amended: every source that contains the three required markers and has
\* unequal numbers of { and } fails with UnbalancedBraces that reports the
\* number of { and the number of } in the source.
C12_UnequalBracesReportedWhenMarkersPresent ==
  Validated /\ HasAllMarkers(evaluation.arg) /\ Opens # Closes =>
    Reports("UnbalancedBraces", Opens, Closes)

C12_Witness ==
  /\ Validated
  /\ HasAllMarkers(evaluation.arg)
  /\ Opens = 4 /\ Closes = 2
  /\ Reports("UnbalancedBraces", 4, 2)

\* the first command, in the order \documentclass, \begin{document},
\* \end{document}, that the source does not contain ("" when none is missing)
FirstMissingMarker(latexCode) ==
  IF ~HasMarker(latexCode, "documentclass", "") THEN "\\documentclass"
  ELSE IF ~HasMarker(latexCode, "begin", "document") THEN "\\begin{document}"
  ELSE IF ~HasMarker(latexCode, "end", "document") THEN "\\end{document}"
  ELSE ""
NamesMarker(command) ==
  /\ ~evaluation.result.isValid
  /\ evaluation.result.error = [Err("MissingMarker") EXCEPT !.command = command]

\* C13: validateLatex checks markers, then braces, then environments and
\* reports the first failure only: the first missing marker in the order
\* \documentclass, \begin{document}, \end{document} is named, whatever the
\* braces and environments are; with \documentclass present and
\* \begin{document} absent the error names \begin{document}; with all
\* markers present unequal braces are reported, whatever the environments are.
C13_ChecksInOrder ==
  Validated =>
    /\ FirstMissingMarker(evaluation.arg) # "" =>
         NamesMarker(FirstMissingMarker(evaluation.arg))
    /\ /\ HasMarker(evaluation.arg, "documentclass", "")
       /\ ~HasMarker(evaluation.arg, "begin", "document")
       => NamesMarker("\\begin{document}")
    /\ FirstMissingMarker(evaluation.arg) = "" /\ Opens # Closes =>
         evaluation.result.error.kind = "UnbalancedBraces"
    /\ evaluation.result.error.kind = "UnbalancedEnvironments" =>
         FirstMissingMarker(evaluation.arg) = "" /\ Opens = Closes

\* a missing \end{document} wins over unequal braces and unequal environments
C13_Witness ==
  /\ Validated
  /\ FirstMissingMarker(evaluation.arg) = "\\end{document}"
  /\ Opens # Closes
  /\ Begins # Ends
  /\ NamesMarker("\\end{document}")

\* C20: with all three markers and equal brace counts, validateLatex accepts
\* exactly when the total number of \begin{...} equals the total number of
\* \end{...}, names and order playing no part, and otherwise fails with
\* UnbalancedEnvironments reporting the two totals.
C20_EnvironmentsByTotalCount ==
  Validated /\ HasAllMarkers(evaluation.arg) /\ Opens = Closes =>
    /\ evaluation.result.isValid <=> Begins = Ends
    /\ Begins = Ends => evaluation.result.error = NoError
    /\ Begins # Ends => Reports("UnbalancedEnvironments", Begins, Ends)

\* accepted although \end{enumerate} comes before \begin{itemize} and the
\* names do not pair up
C20_Witness ==
  /\ Validated
  /\ HasAllMarkers(evaluation.arg)
  /\ \E i, j \in DOMAIN evaluation.arg :
       /\ i < j
       /\ evaluation.arg[i] = EndEnumerate
       /\ evaluation.arg[j] = BeginItemize
  /\ evaluation.result.isValid

\* ---------------------------------------------------------------- cleanLatexText
Cleaned == evaluation.fn = "cleanLatexText" /\ evaluation.done

\* C16: cleanLatexText is idempotent: cleaning a cleaned text changes nothing.
C16_CleanIdempotent ==
  Cleaned => cleanLatexText(evaluation.result) = evaluation.result

\* C22: cleaning a named environment block around a plain-text body gives
\* the whitespace-normalized body, without the delimiters and without the
\* environment name.
C22_EnvironmentUnwrapped ==
  Cleaned =>
    \A name \in EnvironmentNames, body \in PlainBodies :
      evaluation.arg = Environment(name, body) =>
        evaluation.result = trim(CollapseWhitespace(body, 1))

\* ---------------------------------------------------------------- parseLatexContent
Extracted == evaluation.fn = "fallbackCompilation" /\ evaluation.done
Parsed == evaluation.result.parsedContent
ContentFields ==
  {"title", "author", "date", "abstract", "sections", "bibliography",
   "equations", "figures", "compiledAt"}
HasPiece(latexCode, word) == \E i \in DOMAIN Text(latexCode) : Text(latexCode)[i] = word
\* every input yields a whole content, and a field whose command does not
\* occur keeps its default
ExtractTotal ==
  /\ DOMAIN Parsed = ContentFields
  /\ ~HasPiece(evaluation.arg, "title") => Parsed.title = <<"Document">>
  /\ (\A word \in SectionCommands : ~HasPiece(evaluation.arg, word))
       => Parsed.sections = <<>>
  /\ ~HasPiece(evaluation.arg, "bibitem") => Parsed.bibliography = <<>>
  /\ Parsed.author = <<>> /\ Parsed.date = <<>> /\ Parsed.abstract = <<>>
  /\ Parsed.equations = <<>> /\ Parsed.figures = <<>>
MinimalDefaults ==
  evaluation.arg \in {<<>>, MinimalSource} =>
    /\ Parsed.title = <<"Document">>
    /\ Parsed.sections = <<>>
    /\ Parsed.bibliography = <<>>

IsHeading(tok) == tok \in {SectionA, SubsectionB, SubsubsectionStarA}
HeadingOf(tok) ==
  CASE tok = SectionA -> [title |-> <<"A">>, level |-> 1]
    [] tok = SubsectionB -> [title |-> <<"B">>, level |-> 2]
    [] tok = SubsubsectionStarA -> [title |-> <<"A">>, level |-> 3]
\* the sections are headings of the source, taken at increasing positions
InSourceOrder(sections, latexCode) ==
  \E at \in [DOMAIN sections -> DOMAIN latexCode] :
    /\ \A i, j \in DOMAIN sections : i < j => at[i] < at[j]
    /\ \A i \in DOMAIN sections :
         /\ IsHeading(latexCode[at[i]])
         /\ sections[i].title = HeadingOf(latexCode[at[i]]).title
         /\ sections[i].level = HeadingOf(latexCode[at[i]]).level

\* C15: the sections come in source order, each with the level of its
\* command (section 1, subsection 2, subsubsection 3) and a content that is
\* not empty after trimming; a heading with text followed by a heading whose
\* body cleans to nothing gives exactly one entry, for the first heading.
C15_SectionsOrderedLevelledNonEmpty ==
  Extracted =>
    /\ InSourceOrder(Parsed.sections, evaluation.arg)
    /\ \A i \in DOMAIN Parsed.sections :
         /\ Parsed.sections[i].level \in {1, 2, 3}
         /\ trim(Parsed.sections[i].content) # <<>>
    /\ \A h1, h2 \in {SectionA, SubsectionB, SubsubsectionStarA} :
       \A empty \in {<<>>, <<LabelA>>} :
         evaluation.arg = <<h1, "x", h2>> \o empty \o <<EndDocument>> =>
           Parsed.sections = <<[title |-> HeadingOf(h1).title,
                                content |-> <<"x">>,
                                level |-> HeadingOf(h1).level]>>

C15_Witness ==
  /\ Extracted
  /\ evaluation.arg = <<SectionA, "x", SubsectionB, LabelA, EndDocument>>
  /\ Len(Parsed.sections) = 1
  /\ Parsed.sections[1].level = 1

\* the end of the body of the heading at position p: the next heading, the
\* document-end marker or the end of the input, whichever comes first
BodyEnd(latexCode, p) ==
  MinOr({q \in (p + 1)..Len(latexCode) :
           IsHeading(latexCode[q]) \/ latexCode[q] = EndDocument},
        Len(latexCode) + 1)
BodyOf(latexCode, p) ==
  Join(extractParagraphs(Text(SubSeq(latexCode, p + 1, BodyEnd(latexCode, p) - 1))))
\* one section per heading from position p on whose body is not empty
RECURSIVE SectionsToNextOrEnd(_, _)
SectionsToNextOrEnd(latexCode, p) ==
  IF p > Len(latexCode) THEN <<>>
  ELSE IF IsHeading(latexCode[p]) /\ trim(BodyOf(latexCode, p)) # <<>>
  THEN <<[title |-> HeadingOf(latexCode[p]).title,
          content |-> BodyOf(latexCode, p),
          level |-> HeadingOf(latexCode[p]).level]>>
         \o SectionsToNextOrEnd(latexCode, p + 1)
  ELSE SectionsToNextOrEnd(latexCode, p + 1)

\* C21: each heading command captures its heading text and all the content up
\* to the next heading command, the document-end marker or the end of the
\* input, whichever comes first; a heading followed by text that runs to the
\* end of the input yields a section with that text.
C21_SectionRunsToNextHeadingOrEnd ==
  Extracted => Parsed.sections = SectionsToNextOrEnd(evaluation.arg, 1)

\* the end of the item at position p of a bibliography body: the next item
\* or the end of the body
ItemEnd(body, p) ==
  MinOr({q \in (p + 1)..Len(body) : body[q] = BibitemA}, Len(body) + 1)
\* every item is followed by some text of its own
EveryItemHasText(body) ==
  \A p \in DOMAIN body : body[p] = BibitemA => ItemEnd(body, p) > p + 1
\* one sanitized entry per item from position p on
RECURSIVE EntriesOf(_, _)
EntriesOf(body, p) ==
  IF p > Len(body) THEN <<>>
  ELSE IF body[p] = BibitemA
  THEN <<cleanLatexText(Text(SubSeq(body, p + 1, ItemEnd(body, p) - 1)))>>
         \o EntriesOf(body, p + 1)
  ELSE EntriesOf(body, p + 1)

\* C24: the bibliography has exactly one entry per bibliography-item command
\* inside the bibliography environment, in source order, each entry the
\* sanitized text from the item to the next item, also when that text
\* contains other commands.
C24_OneEntryPerItem ==
  Extracted =>
    \A body \in BibliographyBodies :
      /\ evaluation.arg = BibliographySource(body)
      /\ EveryItemHasText(body)
      => Parsed.bibliography = EntriesOf(body, 1)

\* ---------------------------------------------------------------- wrapText
Wrapped == evaluation.fn = "wrapText" /\ evaluation.done

\* C17: no line returned by wrapText is wider than maxWidth, except a line
\* made of one word that is itself wider than maxWidth.
C17_NoLineTooWide ==
  Wrapped =>
    \A n \in DOMAIN evaluation.result :
      LET line == evaluation.result[n]
      IN  \/ measureText(line) <= 794 - 120
          \/ Len(line) = 1 /\ line[1] > 794 - 120

\* a text is broken although an over-wide word stands alone on a line and
\* another line is filled to the last unit
C17_Witness ==
  /\ Wrapped
  /\ Len(evaluation.result) >= 3
  /\ \E n \in DOMAIN evaluation.result : evaluation.result[n] = <<700>>
  /\ \E n \in DOMAIN evaluation.result :
       /\ Len(evaluation.result[n]) = 2
       /\ measureText(evaluation.result[n]) = 674

\* lines.join(' '), as the words of the lines one after the other
RECURSIVE JoinLines(_)
JoinLines(lines) ==
  IF lines = <<>> THEN <<>> ELSE Head(lines) \o JoinLines(Tail(lines))
NonEmptyWords(words) == \A i \in DOMAIN words : words[i] > 0

\* C29: the greedy word-wrap neither loses, duplicates nor reorders words:
\* for a text of non-empty words separated by single spaces, the lines
\* joined by single spaces give the text back, and no line is empty.
C29_WrapKeepsWords ==
  Wrapped /\ NonEmptyWords(evaluation.arg) =>
    /\ JoinLines(evaluation.result) = evaluation.arg
    /\ \A n \in DOMAIN evaluation.result : evaluation.result[n] # <<>>

\* a text is broken into several lines, one of them of more than one word
C29_Witness ==
  /\ Wrapped /\ NonEmptyWords(evaluation.arg)
  /\ Len(evaluation.arg) = 4
  /\ Len(evaluation.result) = 3
  /\ \E n \in DOMAIN evaluation.result : Len(evaluation.result[n]) = 2
  /\ JoinLines(evaluation.result) = evaluation.arg

\* ---------------------------------------------------------------- the drawing
Drawn == evaluation.fn = "generateEnhancedPdf" /\ evaluation.done
Page == evaluation.result
TruncatedKinds ==
  {"section heading", "section body", "references heading", "reference"}

\* C23: pagination is a hard cutoff: no section heading, section body line or
\* bibliography line is drawn once the vertical cursor has exceeded the
\* maximum content height 1000.
C23_NothingDrawnPastMaxHeight ==
  Drawn =>
    \A i \in DOMAIN Page.drawn :
      Page.drawn[i].kind \in TruncatedKinds => Page.drawn[i].y <= 1000

C18_SequentialArtifactsDiffer ==
  \A m, n \in DOMAIN renders :
    /\ m < n
    /\ renders[m].latexCode = renders[n].latexCode
    /\ renders[m].pc = "returned" /\ renders[n].pc = "returned"
    /\ renders[m].outcome = Success /\ renders[n].outcome = Success
    => renders[m].canvas # renders[n].canvas

\* ---------------------------------------------------------------- auto-save
\* C19: when no updateProject call is in flight and none has failed, the
\* store's currentProject.latex_code is the value of the last edit.
C19_LastEditSaved ==
  saves = {} /\ edits # <<>> /\ storeError = "" =>
    currentProject.latex_code = edits[Len(edits)]

====
